---- MODULE Spec2Model ----
(***************************************************************************)
(* Model of the CPSO registry scraper pipeline:                            *)
(*   create-postal-code-permutations.py  (key generation per LDU level)    *)
(*   scrape-cpso.py                      (rate limited fetch with backoff) *)
(*   create-output.py                    (summary / detail aggregation)    *)
(* A postal code is a sequence of one-character strings, so that the '+'   *)
(* separator the level-1 generator inserts is a character of the key.      *)
(***************************************************************************)
EXTENDS Integers, Sequences, FiniteSets, TLC

VARIABLES
    capped,       \* environment: the (key, doctor type) searches the server caps
    faultsLeft,   \* environment: network / disk faults that may still happen
    runsLeft,     \* environment: fetch runs the operator may still start
    seed,         \* data/search-criteria/FSA_LDU0.json
    keyFiles,     \* data/search-criteria/FSA_LDU<n>.json, n in 1..3 (<<>>: absent)
    raw,          \* the raw store: files in directory order, [path, data]
    summary,      \* results/summary.csv rows (<<>>: absent)
    details,      \* results/details.csv rows
    pc,           \* scrape-cpso.py: "idle", "get", "post" or "crashed"
    runDir,       \* output_dir of the running scrape
    runKeys,      \* postal_codes of the running scrape
    runParams,    \* <<doctor_type, last_name>> of the running scrape
    idx,          \* position of the loop of fetch_results_with_rate_limit
    retries,      \* fetch_with_backoff: retries
    delay,        \* fetch_with_backoff: delay
    all_results,  \* fetch_results_with_rate_limit: all_results
    posts,        \* history: search requests issued for the current key
    sleeps,       \* history: backoff sleeps made for the current key
    attempt,      \* history: how the last search request ended
    outcomes,     \* history: how the fetch of each key of the run ended
    crashCause,   \* history: what aborted the run ("none" when nothing did)
    runSummary,   \* what run_simple_scrape printed and returned
    history,      \* history: the completed runs, oldest first
    lastGen,      \* history: the last run of create-postal-code-permutations.py
    call,         \* a function called on its own: its name and arguments
    ret           \* what that call returned or raised

vars == <<capped, faultsLeft, runsLeft, seed, keyFiles, raw, summary, details,
          pc, runDir, runKeys, runParams, idx, retries, delay, all_results,
          posts, sleeps, attempt, outcomes, crashCause, runSummary, history, lastGen,
          call, ret>>

envVars   == <<capped, seed>>
callVars  == <<call, ret>>
fileVars  == <<keyFiles, summary, details>>
fetchVars == <<runDir, runKeys, runParams, idx, retries, delay, all_results,
               posts, sleeps, attempt, outcomes, crashCause, runSummary>>

----------------------------------------------------------------------------
(* Bounds of the model *)

MaxRuns == 3          \* fetch runs per behaviour of the pipeline
MaxFetchRuns == 2     \* fetch runs per behaviour of the flaky-network model
MaxFaults == 5        \* faults per behaviour of the flaky-network model
MaxKeys == 3          \* postal codes of the key file of the flaky-network model
CompleteCount == 3    \* totalcount (and result rows) of a search that is not capped

(* Program constants *)

max_retries == 5
initial_delay == 2

----------------------------------------------------------------------------
(* create-postal-code-permutations.py *)

\* faulty variant: the letter O left out of the excluded set
VALID_LETTERS_with_O ==
    <<"A", "B", "C", "E", "G", "H", "J", "K", "L", "M",
      "N", "O", "P", "R", "S", "T", "V", "W", "X", "Y", "Z">>

VALID_LETTERS ==
    <<"A", "B", "C", "E", "G", "H", "J", "K", "L", "M",
      "N", "P", "R", "S", "T", "V", "W", "X", "Y", "Z">>

VALID_DIGITS == <<"0", "1", "2", "3", "4", "5", "6", "7", "8", "9">>

RECURSIVE Flatten(_)
Flatten(ss) == IF ss = <<>> THEN <<>> ELSE Head(ss) \o Flatten(Tail(ss))

\* faulty variant: the digit appended without the separator
generate_ldu1_permutations_noplus(postal_codes) ==
    Flatten([i \in 1..Len(postal_codes) |->
                [j \in 1..Len(VALID_DIGITS) |->
                    postal_codes[i] \o <<VALID_DIGITS[j]>>]])

\* [postal_code + "+" + d for d in VALID_DIGITS], for every postal code in order
generate_ldu1_permutations(postal_codes) ==
    Flatten([i \in 1..Len(postal_codes) |->
                [j \in 1..Len(VALID_DIGITS) |->
                    postal_codes[i] \o <<"+">> \o <<VALID_DIGITS[j]>>]])

\* faulty variant: the fifth position filled from the digits, as the fourth and sixth
generate_ldu2_permutations_digits(postal_codes) ==
    Flatten([i \in 1..Len(postal_codes) |->
                [j \in 1..Len(VALID_DIGITS) |->
                    postal_codes[i] \o <<VALID_DIGITS[j]>>]])

\* [postal_code + l for l in VALID_LETTERS]
generate_ldu2_permutations(postal_codes) ==
    Flatten([i \in 1..Len(postal_codes) |->
                [j \in 1..Len(VALID_LETTERS) |->
                    postal_codes[i] \o <<VALID_LETTERS[j]>>]])

\* faulty variant: the sixth position filled from the letters, as the fifth
generate_ldu3_permutations_letters(postal_codes) ==
    Flatten([i \in 1..Len(postal_codes) |->
                [j \in 1..Len(VALID_LETTERS) |->
                    postal_codes[i] \o <<VALID_LETTERS[j]>>]])

\* [postal_code + d for d in VALID_DIGITS]
generate_ldu3_permutations(postal_codes) ==
    Flatten([i \in 1..Len(postal_codes) |->
                [j \in 1..Len(VALID_DIGITS) |->
                    postal_codes[i] \o <<VALID_DIGITS[j]>>]])

\* the permutations generate_and_save_permutations computes for 'ldu<level>'
generate_and_save_permutations(postal_codes, level) ==
    CASE level = 1 -> generate_ldu1_permutations(postal_codes)
      [] level = 2 -> generate_ldu2_permutations(postal_codes)
      [] level = 3 -> generate_ldu3_permutations(postal_codes)

\* faulty variant: the totalcount filter left out, every row's postal code returned
load_postal_codes_csv_all(rows) ==
    [i \in 1..Len(rows) |-> rows[i].postal_code]

\* the .csv branch: df[df['totalcount'] == -1]['postal_code'].tolist()
load_postal_codes_csv(rows) ==
    LET IsCapped(r) == r.totalcount = -1
        kept == SelectSeq(rows, IsCapped)
    IN  [i \in 1..Len(kept) |-> kept[i].postal_code]

\* An item of a JSON list: a key string, or a record with a postal_code and a
\* totalcount.
StrItem(code) == [dict |-> FALSE, postal_code |-> code, totalcount |-> 0]

DictItem(code, n) == [dict |-> TRUE, postal_code |-> code, totalcount |-> n]

StrItems(codes) == [i \in 1..Len(codes) |-> StrItem(codes[i])]

ItemCodes(items) == [i \in 1..Len(items) |-> items[i].postal_code]

\* The loop of the .json branch from its i-th iteration.  postal_codes = data
\* binds the name to the very list that is iterated (aliased): an append
\* made after it adds the postal code to data, and the loop goes on over the
\* item added, which is a string.
RECURSIVE load_postal_codes_loop(_, _, _, _)
load_postal_codes_loop(data, i, postal_codes, aliased) ==
    IF i > Len(data)
    THEN (IF aliased THEN data ELSE postal_codes)
    ELSE IF data[i].dict /\ data[i].totalcount = -1
         THEN IF aliased
              THEN load_postal_codes_loop(Append(data, StrItem(data[i].postal_code)),
                                          i + 1, postal_codes, TRUE)
              ELSE load_postal_codes_loop(data, i + 1,
                       Append(postal_codes, StrItem(data[i].postal_code)), FALSE)
         ELSE load_postal_codes_loop(data, i + 1, postal_codes, TRUE)

\* the .json branch: postal_codes = [] and the loop over data.  On a plain
\* list of key strings every iteration executes postal_codes = data.
load_postal_codes_json(data) == load_postal_codes_loop(data, 1, <<>>, FALSE)

\* faulty variant: len(code), the separator counted
actual_length_raw(code) == Len(code)

\* len(code.replace('+', ''))
actual_length(code) ==
    LET NotPlus(c) == c # "+" IN Len(SelectSeq(code, NotPlus))

required_length_map(level) == level + 2

\* faulty variant: codes at least as long as required pass the filter
filtered_postal_codes_atleast(postal_codes, level) ==
    LET Fits(code) == actual_length(code) >= required_length_map(level)
    IN  SelectSeq(postal_codes, Fits)

\* the filter loop of __main__
filtered_postal_codes(postal_codes, level) ==
    LET Fits(code) == actual_length(code) = required_length_map(level)
    IN  SelectSeq(postal_codes, Fits)

----------------------------------------------------------------------------
(* The registry server (external collaborator) *)

\* A search is capped when its key is one the server caps and every doctor
\* type is asked for; the response then carries totalcount = -1.
ServerTotal(key, params) ==
    IF key \in capped /\ params[1] = "Any" THEN -1 ELSE CompleteCount

\* The phone number the registry holds for a doctor, as the registry writes it
ServerPhone(i) ==
    IF i % 2 = 1
    THEN <<"4", "1", "6", "-", "5", "5", "5", "-", "1", "2", "3", "4">>
    ELSE <<"1", "2", "3", "4", "5">>

\* The detail rows of a response: the same doctors are found under every key,
\* each row telling the key it was found under.
ServerResults(key, params) ==
    [i \in 1..CompleteCount |->
        [cpsonumber |-> i, found_under |-> key, phonenumber |-> ServerPhone(i)]]

ServerPayload(key, params) ==
    [totalcount |-> ServerTotal(key, params), results |-> ServerResults(key, params)]

----------------------------------------------------------------------------
(* scrape-cpso.py *)

\* os.path.join("data", Path(input_file).stem) for FSA_LDU<n>.json
OutputDir(n) == <<"data/FSA_LDU", ToString(n)>>

\* the postal codes load_postal_codes_from_file reads from FSA_LDU<n>.json
InputKeys(n) == IF n = 0 THEN seed ELSE keyFiles[n]

\* faulty variant: the default file name of save_results_to_file, whatever the key
Filename_default(dir, postal_code, params) == <<"cpso_results.json">>

\* os.path.join(output_dir, "raw", f"{postal_code}+{doctor_type}+{last_name}.json")
Filename(dir, postal_code, params) ==
    dir \o <<"/raw/">> \o postal_code \o <<"+", params[1], "+", params[2], ".json">>

\* faulty variant: every save adds a file, an existing one is never replaced
save_results_to_file_added(store, results, filename) ==
    Append(store, [path |-> filename, data |-> results])

\* open(filename, 'w') and json.dump: the file is created, or its content replaced
save_results_to_file(store, results, filename) ==
    IF \E i \in 1..Len(store) : store[i].path = filename
    THEN [i \in 1..Len(store) |->
            IF store[i].path = filename
            THEN [path |-> filename, data |-> results] ELSE store[i]]
    ELSE Append(store, [path |-> filename, data |-> results])

\* result_data["postal_code"] = postal_code
WithPostalCode(payload, postal_code) ==
    [postal_code |-> postal_code,
     totalcount  |-> payload.totalcount,
     results     |-> payload.results]

RECURSIVE SumLen(_)
SumLen(results) ==
    IF results = <<>> THEN 0 ELSE Len(Head(results).results) + SumLen(Tail(results))

\* run_simple_scrape: the summary line it prints and the list it returns
run_simple_scrape(postal_codes, results) ==
    [total_doctors |-> SumLen(results),
     postal_codes  |-> Len(postal_codes),
     results       |-> results]

NoSummary == [total_doctors |-> 0, postal_codes |-> 0, results |-> <<>>]

\* history: a run that ended, normally (cause "none") or by an exception
RunRecord(outs, store, printed, cause) ==
    [dir |-> runDir, keys |-> runKeys, params |-> runParams, attempted |-> idx,
     outcomes |-> outs, raw |-> store, summary |-> printed, cause |-> cause]

\* The rest of one iteration of the loop of fetch_results_with_rate_limit once
\* fetch_with_backoff has returned (outcome), and the end of the run after
\* the last postal code.
NextKey(outcome, results, store) ==
    /\ all_results' = results
    /\ raw' = store
    /\ outcomes' = Append(outcomes, outcome)
    /\ idx' = idx + 1
    /\ IF idx < Len(runKeys)
       THEN /\ pc' = "get"
            /\ UNCHANGED <<runSummary, history>>
       ELSE /\ pc' = "idle"
            /\ runSummary' = run_simple_scrape(runKeys, results)
            /\ history' = Append(history,
                    RunRecord(Append(outcomes, outcome), store,
                              run_simple_scrape(runKeys, results), "none"))

\* python scrape-cpso.py -i FSA_LDU<n>.json -d doctor_type -l last_name
StartRun(n, params) ==
    /\ pc \in {"idle", "crashed"}
    /\ runsLeft > 0
    /\ InputKeys(n) # <<>>
    /\ runsLeft' = runsLeft - 1
    /\ pc' = "get"
    /\ runDir' = OutputDir(n)
    /\ runKeys' = InputKeys(n)
    /\ runParams' = params
    /\ idx' = 1
    /\ all_results' = <<>>
    /\ outcomes' = <<>>
    /\ crashCause' = "none"
    /\ runSummary' = NoSummary
    /\ retries' = 0
    /\ delay' = initial_delay
    /\ posts' = 0
    /\ sleeps' = <<>>
    /\ attempt' = "none"
    /\ UNCHANGED <<envVars, callVars, fileVars, faultsLeft, raw, history, lastGen>>

\* faulty variant: retries and delay kept from the fetch of the key before
SessionGetOk_carried ==
    /\ pc = "get"
    /\ pc' = "post"
    /\ posts' = 0
    /\ sleeps' = <<>>
    /\ attempt' = "none"
    /\ UNCHANGED <<envVars, callVars, fileVars, faultsLeft, runsLeft, raw, history,
                   lastGen, runDir, runKeys, runParams, idx, all_results, outcomes,
                   crashCause, runSummary, retries, delay>>

\* The start of an iteration: the random sleep, the session-establishing GET,
\* and the entry of fetch_with_backoff.
SessionGetOk ==
    /\ pc = "get"
    /\ pc' = "post"
    /\ retries' = 0
    /\ delay' = initial_delay
    /\ posts' = 0
    /\ sleeps' = <<>>
    /\ attempt' = "none"
    /\ UNCHANGED <<envVars, callVars, fileVars, faultsLeft, runsLeft, raw, history, lastGen,
                   runDir, runKeys, runParams, idx, all_results, outcomes,
                   crashCause, runSummary>>

\* session.get raises (it is outside every try): the exception ends the process.
SessionGetRaises ==
    /\ pc = "get"
    /\ faultsLeft > 0
    /\ faultsLeft' = faultsLeft - 1
    /\ pc' = "crashed"
    /\ crashCause' = "transport"
    /\ history' = Append(history, RunRecord(outcomes, raw, NoSummary, "transport"))
    /\ UNCHANGED <<envVars, callVars, fileVars, runsLeft, raw, lastGen,
                   runDir, runKeys, runParams, idx, all_results, outcomes,
                   retries, delay, posts, sleeps, attempt, runSummary>>

\* Status 200 and response.json() parses: the payload is returned, tagged with
\* the postal code, appended to all_results and saved.
Post200 ==
    /\ pc = "post"
    /\ retries < max_retries
    /\ LET key == runKeys[idx]
           result_data == WithPostalCode(ServerPayload(key, runParams), key)
       IN  NextKey("ok", Append(all_results, result_data),
                   save_results_to_file(raw, result_data,
                                        Filename(runDir, key, runParams)))
    /\ posts' = posts + 1
    /\ attempt' = "200"
    /\ UNCHANGED <<envVars, callVars, fileVars, faultsLeft, runsLeft, lastGen,
                   runDir, runKeys, runParams, retries, delay, sleeps, crashCause>>

\* Status 200, but os.makedirs / open / json.dump raises: nothing catches it.
Post200SaveRaises ==
    /\ pc = "post"
    /\ retries < max_retries
    /\ faultsLeft > 0
    /\ faultsLeft' = faultsLeft - 1
    /\ LET key == runKeys[idx]
           result_data == WithPostalCode(ServerPayload(key, runParams), key)
       IN  all_results' = Append(all_results, result_data)
    /\ posts' = posts + 1
    /\ attempt' = "200"
    /\ pc' = "crashed"
    /\ crashCause' = "io"
    /\ history' = Append(history, RunRecord(outcomes, raw, NoSummary, "io"))
    /\ UNCHANGED <<envVars, callVars, fileVars, runsLeft, raw, lastGen,
                   runDir, runKeys, runParams, idx, outcomes,
                   retries, delay, sleeps, runSummary>>

RetryKinds == {"429", "status", "exception"}

\* The backoff that ends an iteration of the while loop: time.sleep(delay),
\* delay *= 2, retries += 1.  The loop condition is then tested again; when it
\* fails, fetch_with_backoff returns None.
Backoff(kind) ==
    /\ pc = "post"
    /\ retries < max_retries
    /\ faultsLeft > 0
    /\ faultsLeft' = faultsLeft - 1
    /\ posts' = posts + 1
    /\ attempt' = kind
    /\ sleeps' = Append(sleeps, delay)
    /\ delay' = delay * 2
    /\ retries' = retries + 1
    /\ IF retries + 1 < max_retries
       THEN UNCHANGED <<pc, idx, all_results, raw, outcomes, runSummary, history>>
       ELSE NextKey("max_retries", all_results, raw)
    /\ UNCHANGED <<envVars, callVars, fileVars, runsLeft, lastGen,
                   runDir, runKeys, runParams, crashCause>>

\* faulty variant: the loop condition is retries <= max_retries
Backoff_one_more(kind) ==
    /\ pc = "post"
    /\ retries < max_retries
    /\ faultsLeft > 0
    /\ faultsLeft' = faultsLeft - 1
    /\ posts' = posts + 1
    /\ attempt' = kind
    /\ sleeps' = Append(sleeps, delay)
    /\ delay' = delay * 2
    /\ retries' = retries + 1
    /\ IF retries + 1 <= max_retries
       THEN UNCHANGED <<pc, idx, all_results, raw, outcomes, runSummary, history>>
       ELSE NextKey("max_retries", all_results, raw)
    /\ UNCHANGED <<envVars, callVars, fileVars, runsLeft, lastGen,
                   runDir, runKeys, runParams, crashCause>>

\* One iteration that ends in the backoff: status 429, another status, or an
\* exception whose text is not the control-character one.
PostRetry(kind) == Backoff(kind)

\* faulty variant: the control-character exception handled as any other exception
PostControlChar_retried == Backoff("control_char")

\* An exception whose text holds "Invalid control character at: line":
\* fetch_with_backoff returns None at once.
PostControlChar ==
    /\ pc = "post"
    /\ retries < max_retries
    /\ faultsLeft > 0
    /\ faultsLeft' = faultsLeft - 1
    /\ posts' = posts + 1
    /\ attempt' = "control_char"
    /\ NextKey("unparseable", all_results, raw)
    /\ UNCHANGED <<envVars, callVars, fileVars, runsLeft, lastGen,
                   runDir, runKeys, runParams, retries, delay, sleeps, crashCause>>

----------------------------------------------------------------------------
(* create-output.py *)

\* Python's None
None == <<"None">>

\* faulty variant: a number that cannot be formatted is returned as it came
format_phone_raw(number) ==
    LET IsDigit(c) == c \in {"0", "1", "2", "3", "4", "5", "6", "7", "8", "9"}
        digits == SelectSeq(number, IsDigit)
    IN  IF Len(digits) = 10
        THEN <<"(">> \o SubSeq(digits, 1, 3) \o <<")", " ">> \o SubSeq(digits, 4, 6)
                 \o <<"-">> \o SubSeq(digits, 7, 10)
        ELSE number

\* re.sub(r'\D', '', str(number)), then the 10-digit test; number is given as
\* the characters of str(number)
format_phone(number) ==
    LET IsDigit(c) == c \in {"0", "1", "2", "3", "4", "5", "6", "7", "8", "9"}
        digits == SelectSeq(number, IsDigit)
    IN  IF Len(digits) = 10
        THEN <<"(">> \o SubSeq(digits, 1, 3) \o <<")", " ">> \o SubSeq(digits, 4, 6)
                 \o <<"-">> \o SubSeq(digits, 7, 10)
        ELSE None

\* detail_df['phonenumber'].apply(format_phone)
apply_format_phone(rows) ==
    [i \in 1..Len(rows) |->
        [rows[i] EXCEPT !.phonenumber = format_phone(rows[i].phonenumber)]]

\* the rows with totalcount == -1 and len(str(postal_code)) == 7, which
\* process_data counts as the capped postal codes
summary_df_capped(rows) ==
    LET IsCapped(r) == r.totalcount = -1 /\ Len(r.postal_code) = 7
    IN  SelectSeq(rows, IsCapped)

\* one summary row per raw file, in the order glob lists the files
summary_rows(store) ==
    [i \in 1..Len(store) |->
        [postal_code |-> store[i].data.postal_code,
         totalcount  |-> store[i].data.totalcount]]

\* detail_rows.extend(data['results']) for every file that has results
detail_rows(store) ==
    Flatten([i \in 1..Len(store) |-> store[i].data.results])

\* faulty variant: keep='last', the last row of each cpsonumber is kept
RECURSIVE drop_duplicates_last(_)
drop_duplicates_last(rows) ==
    IF rows = <<>> THEN <<>>
    ELSE LET first == Head(rows)
         IN  (IF \E i \in 2..Len(rows) : rows[i].cpsonumber = first.cpsonumber
              THEN <<>> ELSE <<first>>) \o drop_duplicates_last(Tail(rows))

\* DataFrame.drop_duplicates(subset=['cpsonumber']): the first row of each
\* cpsonumber is kept, in order
RECURSIVE drop_duplicates(_)
drop_duplicates(rows) ==
    IF rows = <<>> THEN <<>>
    ELSE LET first == Head(rows)
             Other(r) == r.cpsonumber # first.cpsonumber
         IN  <<first>> \o drop_duplicates(SelectSeq(Tail(rows), Other))

\* python create-output.py: summary.csv is rewritten from every raw file found,
\* details.csv too (duplicates dropped, then the phone numbers formatted) unless
\* there is no detail row; nothing is written when glob finds no file.
ProcessData ==
    /\ pc \in {"idle", "crashed"}
    /\ IF raw = <<>>
       THEN UNCHANGED <<summary, details>>
       ELSE /\ summary' = summary_rows(raw)
            /\ details' = IF detail_rows(raw) = <<>> THEN details
                          ELSE apply_format_phone(drop_duplicates(detail_rows(raw)))
    /\ UNCHANGED <<envVars, callVars, keyFiles, faultsLeft, runsLeft, raw, pc, fetchVars,
                   history, lastGen>>

----------------------------------------------------------------------------
(* create-postal-code-permutations.py, __main__ *)

\* python create-postal-code-permutations.py <level> --input_file <source>,
\* source being FSA_LDU0.json ("seed") or results/summary.csv ("summary").
\* The script exits with status 1, writing nothing, when no postal code is
\* loaded (an absent summary.csv included) or none survives the length filter.
\* summary.csv is read back as it was written: a postal code starts with a
\* letter and stays a string, totalcount stays an integer.
Generate(level, source) ==
    /\ pc \in {"idle", "crashed"}
    /\ LET loaded  == IF source = "seed"
                      THEN ItemCodes(load_postal_codes_json(StrItems(seed)))
                      ELSE load_postal_codes_csv(summary)
           parents == filtered_postal_codes(loaded, level)
           permutations == generate_and_save_permutations(parents, level)
       IN  IF parents = <<>>
           THEN /\ UNCHANGED keyFiles
                /\ lastGen' = [level |-> level, source |-> source, loaded |-> loaded,
                               rows |-> IF source = "seed" THEN <<>> ELSE summary,
                               parents |-> <<>>, permutations |-> <<>>, exit |-> 1]
           ELSE /\ keyFiles' = [keyFiles EXCEPT ![level] = permutations]
                /\ lastGen' = [level |-> level, source |-> source, loaded |-> loaded,
                               rows |-> IF source = "seed" THEN <<>> ELSE summary,
                               parents |-> parents, permutations |-> permutations,
                               exit |-> 0]
    /\ UNCHANGED <<envVars, callVars, summary, details, faultsLeft, runsLeft, raw, pc,
                   fetchVars, history>>

----------------------------------------------------------------------------
(* The two specifications *)

K1A == <<"K", "1", "A">>

K1A0 == K1A \o <<"+", "0">>
K1A1 == K1A \o <<"+", "1">>
K1A0A == K1A0 \o <<"A">>
K1A0A0 == K1A0A \o <<"0">>

\* what the server caps: nothing; one child of the seed; the seed and two of
\* its children; a chain down to a full postal code
Scenarios ==
    {{}, {K1A0}, {K1A, K1A0, K1A1}, {K1A0, K1A0A, K1A0A0}}

NoGen == [level |-> 0, source |-> "none", loaded |-> <<>>, rows |-> <<>>,
          parents |-> <<>>, permutations |-> <<>>, exit |-> 0]

NoCall == [fn |-> "none", arg |-> <<>>, level |-> 0]

NoRet == [kind |-> "none", value |-> <<>>]

InitCommon ==
    /\ raw = <<>>
    /\ summary = <<>>
    /\ details = <<>>
    /\ pc = "idle"
    /\ runDir = <<>>
    /\ runKeys = <<>>
    /\ idx = 1
    /\ retries = 0
    /\ delay = initial_delay
    /\ all_results = <<>>
    /\ posts = 0
    /\ sleeps = <<>>
    /\ attempt = "none"
    /\ outcomes = <<>>
    /\ crashCause = "none"
    /\ runSummary = NoSummary
    /\ history = <<>>
    /\ lastGen = NoGen
    /\ call = NoCall
    /\ ret = NoRet

\* The refinement pipeline over a network that answers every request: the
\* operator runs the three scripts one at a time, in any order.
Init ==
    /\ InitCommon
    /\ capped \in Scenarios
    /\ seed = <<K1A>>
    /\ runParams = <<"Any", "Any">>
    /\ keyFiles = [n \in 1..3 |-> <<>>]
    /\ faultsLeft = 0
    /\ runsLeft = MaxRuns

Next ==
    \/ \E level \in 1..3, source \in {"seed", "summary"} : Generate(level, source)
    \/ \E n \in 0..3 : StartRun(n, <<"Any", "Any">>)
    \/ SessionGetOk
    \/ Post200
    \/ ProcessData

Spec == Init /\ [][Next]_vars

\* The fetch stage over a flaky network and disk: scrape-cpso.py is run, and
\* run again, on a short key file FSA_LDU1.json with one of the doctor types.
DoctorParams == {<<"Any", "Any">>, <<"Specialist", "Any">>}

FetchKeys == SubSeq(generate_ldu1_permutations(<<K1A>>), 1, MaxKeys)

FetchInit ==
    /\ InitCommon
    /\ capped = {K1A0}
    /\ seed = <<>>
    /\ runParams \in DoctorParams
    /\ keyFiles = [n \in 1..3 |-> IF n = 1 THEN FetchKeys ELSE <<>>]
    /\ faultsLeft = MaxFaults
    /\ runsLeft = MaxFetchRuns

FetchNext ==
    \/ StartRun(1, runParams)
    \/ SessionGetOk
    \/ SessionGetRaises
    \/ Post200
    \/ Post200SaveRaises
    \/ \E kind \in RetryKinds : PostRetry(kind)
    \/ PostControlChar

FetchSpec == FetchInit /\ [][FetchNext]_vars

\* The fetch stage run on the same key file with one doctor type and then
\* another, over a network that answers every request, and the aggregation.
MixInit ==
    /\ InitCommon
    /\ capped = {K1A0}
    /\ seed = <<>>
    /\ runParams = <<"Any", "Any">>
    /\ keyFiles = [n \in 1..3 |-> IF n = 1 THEN FetchKeys ELSE <<>>]
    /\ faultsLeft = 0
    /\ runsLeft = MaxRuns

MixNext ==
    \/ \E params \in DoctorParams : StartRun(1, params)
    \/ SessionGetOk
    \/ Post200
    \/ ProcessData

MixSpec == MixInit /\ [][MixNext]_vars

\* The functions of the scripts called on their own, on any argument.
MaxParents == 2       \* postal codes in the list given to the generator

SeqsUpTo(S, n) == UNION {[1..k -> S] : k \in 1..n}

\* keys of every length from 2 to 6, with and without the separator
ExpandKeys == {<<"K", "1">>, K1A, <<"M", "5", "V">>, K1A0, K1A1, K1A0A, K1A0A0}

ParentLists == SeqsUpTo(ExpandKeys, MaxParents)

\* 'ldu1', 'ldu2', 'ldu3' (1..3) and two other level strings
CallLevels == 0..4

\* generate_and_save_permutations(postal_codes, 'ldu<level>'): the
\* permutations are written to FSA_LDU<level>.json and returned; another
\* level raises ValueError before anything is written.
CallGenerate(postal_codes, level) ==
    /\ call = NoCall
    /\ call' = [fn |-> "generate_and_save_permutations",
                arg |-> postal_codes, level |-> level]
    /\ IF level \in 1..3
       THEN /\ ret' = [kind  |-> "value",
                       value |-> generate_and_save_permutations(postal_codes, level)]
            /\ keyFiles' = [keyFiles EXCEPT
                               ![level] = generate_and_save_permutations(postal_codes, level)]
       ELSE /\ ret' = [kind |-> "ValueError", value |-> <<>>]
            /\ UNCHANGED keyFiles
    /\ UNCHANGED <<envVars, summary, details, faultsLeft, runsLeft, raw, pc,
                   fetchVars, history, lastGen>>

BasePhone == <<"4", "1", "6", "5", "5", "5", "1", "2", "3", "4">>

Insert(str, p, c) == SubSeq(str, 1, p) \o <<c>> \o SubSeq(str, p + 1, Len(str))

Drop(str, p) == SubSeq(str, 1, p - 1) \o SubSeq(str, p + 1, Len(str))

\* str(number) of the values format_phone may be given: the three of the
\* documentation, a missing value, a number read as a float, and a 10-digit
\* number with one character added or one digit dropped
PhoneInputs ==
    {<<"4", "1", "6", "-", "5", "5", "5", "-", "1", "2", "3", "4">>,
     <<"1", "2", "3", "4", "5">>,
     <<"(", "4", "1", "6", ")", " ", "5", "5", "5", "-", "1", "2", "3", "4">>,
     <<"n", "a", "n">>,
     <<"N", "o", "n", "e">>,
     <<>>,
     BasePhone \o <<".", "0">>}
    \cup {Insert(BasePhone, p, c) : p \in 0..Len(BasePhone),
                                    c \in {"-", " ", "(", ")", ".", "x", "7"}}
    \cup {Drop(BasePhone, p) : p \in 1..Len(BasePhone)}

\* format_phone(number)
CallFormatPhone(number) ==
    /\ call = NoCall
    /\ call' = [fn |-> "format_phone", arg |-> number, level |-> 0]
    /\ ret' = [kind |-> "value", value |-> format_phone(number)]
    /\ UNCHANGED <<envVars, fileVars, faultsLeft, runsLeft, raw, pc, fetchVars,
                   history, lastGen>>

MaxItems == 3         \* items of the JSON list given to the loader

\* a key string, two capped records and a complete one
JsonItems ==
    {StrItem(K1A), DictItem(K1A0, -1), DictItem(K1A1, CompleteCount),
     DictItem(K1A0A, -1)}

\* load_postal_codes(input_file) on a .json file holding this list
CallLoad(data) ==
    /\ call = NoCall
    /\ call' = [fn |-> "load_postal_codes", arg |-> data, level |-> 0]
    /\ ret' = [kind |-> "value", value |-> load_postal_codes_json(data)]
    /\ UNCHANGED <<envVars, fileVars, faultsLeft, runsLeft, raw, pc, fetchVars,
                   history, lastGen>>

CallInit ==
    /\ InitCommon
    /\ capped = {}
    /\ seed = <<>>
    /\ runParams = <<"Any", "Any">>
    /\ keyFiles = [n \in 1..3 |-> <<>>]
    /\ faultsLeft = 0
    /\ runsLeft = 0

CallNext ==
    \/ \E postal_codes \in ParentLists, level \in CallLevels :
          CallGenerate(postal_codes, level)
    \/ \E number \in PhoneInputs : CallFormatPhone(number)
    \/ \E data \in SeqsUpTo(JsonItems, MaxItems) : CallLoad(data)

CallSpec == CallInit /\ [][CallNext]_vars

----------------------------------------------------------------------------
(* Helpers of the properties *)

Range(seq) == {seq[i] : i \in 1..Len(seq)}

NoDuplicates(seq) == \A i, j \in 1..Len(seq) : seq[i] = seq[j] => i = j

\* the key a generated permutation was expanded from
ParentOf(code, level) ==
    IF level = 1 THEN SubSeq(code, 1, Len(code) - 2) ELSE SubSeq(code, 1, Len(code) - 1)

RowsOf(rows, n) == {i \in 1..Len(rows) : actual_length(rows[i].postal_code) = n}

HasCappedRow(rows, code) ==
    \E i \in 1..Len(rows) : rows[i].postal_code = code /\ rows[i].totalcount = -1

OnlyCompleteRows(rows, code) ==
    /\ \E i \in 1..Len(rows) : rows[i].postal_code = code
    /\ \A i \in 1..Len(rows) : rows[i].postal_code = code => rows[i].totalcount >= 0

\* the raw store holds exactly the records of the rank-1 and rank-2 key files
FetchedRanks1And2 ==
    /\ keyFiles[1] # <<>>
    /\ keyFiles[2] # <<>>
    /\ {raw[i].data.postal_code : i \in 1..Len(raw)}
           = Range(keyFiles[1]) \cup Range(keyFiles[2])

----------------------------------------------------------------------------
(* C1: end to end from the seed set ["K1A"], the server capping only the     *)
(* child of K1A with digit 0 (every other search gives CompleteCount): a     *)
(* level-2 generation from the summary expands that child alone, into        *)
(* exactly 20 candidates; and once the rank-1 and rank-2 keys are fetched    *)
(* and aggregated, the summary holds 10 rank-1 rows and 20 rank-2 rows, 30   *)
(* in all, no key twice, the capped child the only row with totalcount -1.   *)
C1_EndToEnd ==
    (seed = <<K1A>> /\ capped = {K1A0}) =>
        /\ (lastGen.level = 2 /\ lastGen.source = "summary" /\ lastGen.exit = 0) =>
              /\ lastGen.parents = <<K1A0>>
              /\ Len(lastGen.permutations) = 20
              /\ NoDuplicates(lastGen.permutations)
              /\ \A i \in 1..20 : ParentOf(lastGen.permutations[i], 2) = K1A0
        /\ (FetchedRanks1And2 /\ summary = summary_rows(raw)) =>
              /\ Len(summary) = 30
              /\ Cardinality(RowsOf(summary, 4)) = 10
              /\ Cardinality(RowsOf(summary, 5)) = 20
              /\ NoDuplicates([i \in 1..Len(summary) |-> summary[i].postal_code])
              /\ \A i \in 1..Len(summary) :
                    summary[i].totalcount =
                        IF summary[i].postal_code = K1A0 THEN -1 ELSE CompleteCount

C1_Witness ==
    /\ seed = <<K1A>>
    /\ capped = {K1A0}
    /\ FetchedRanks1And2
    /\ summary = summary_rows(raw)
    /\ Len(summary) = 30
    /\ lastGen.level = 2 /\ lastGen.source = "summary" /\ lastGen.exit = 0

(* C2: a generation driven from the summary expands capped keys only: every  *)
(* key expanded has a summary row with totalcount = -1, every permutation    *)
(* written comes from such a key, and a key whose rows all have              *)
(* totalcount >= 0 is never expanded.                                        *)
C2_OnlyCappedExpanded ==
    (lastGen.source = "summary" /\ lastGen.exit = 0) =>
        /\ \A p \in Range(lastGen.parents) :
              /\ HasCappedRow(lastGen.rows, p)
              /\ ~OnlyCompleteRows(lastGen.rows, p)
        /\ \A c \in Range(lastGen.permutations) :
              /\ ParentOf(c, lastGen.level) \in Range(lastGen.parents)
              /\ HasCappedRow(lastGen.rows, ParentOf(c, lastGen.level))
        /\ keyFiles[lastGen.level] = lastGen.permutations

C2_Witness ==
    /\ lastGen.source = "summary"
    /\ lastGen.exit = 0
    /\ lastGen.level = 2
    /\ \E i \in 1..Len(lastGen.rows) :
          /\ lastGen.rows[i].totalcount >= 0
          /\ actual_length(lastGen.rows[i].postal_code) = 4
    /\ keyFiles[2] = lastGen.permutations

(* C3: the refinement stops after rank 3.  A generation writes a key file    *)
(* only for a level n in 1..3 and only when some capped key of true length   *)
(* n + 2 (at most 5) is left; otherwise the script exits writing nothing.    *)
(* Every key generated at level n has true length n + 3, so none is longer   *)
(* than 6, and a capped full postal code is never expanded.                  *)
C3_StopsAtRank3 ==
    /\ lastGen.level \in 0..3
    /\ (lastGen.exit = 0 /\ lastGen.level > 0) =>
          /\ lastGen.parents # <<>>
          /\ \A p \in Range(lastGen.parents) :
                actual_length(p) = lastGen.level + 2 /\ actual_length(p) < 6
          /\ \A c \in Range(lastGen.permutations) :
                actual_length(c) = lastGen.level + 3
    /\ lastGen.exit = 1 => (lastGen.parents = <<>> /\ lastGen.permutations = <<>>)
    /\ \A n \in 1..3 : \A c \in Range(keyFiles[n]) :
          actual_length(c) = n + 3 /\ actual_length(c) <= 6
    /\ \A i \in 1..Len(lastGen.rows) :
          actual_length(lastGen.rows[i].postal_code) = 6 =>
              /\ lastGen.rows[i].postal_code \notin Range(lastGen.parents)
              /\ \A c \in Range(lastGen.permutations) :
                    ParentOf(c, lastGen.level) # lastGen.rows[i].postal_code

\* a capped full postal code is in the summary and a generation has run on it
C3_Witness ==
    /\ lastGen.source = "summary"
    /\ lastGen.level = 3
    /\ \E i \in 1..Len(lastGen.rows) :
          /\ actual_length(lastGen.rows[i].postal_code) = 6
          /\ lastGen.rows[i].totalcount = -1

----------------------------------------------------------------------------
(* Properties of the fetch stage *)

Last(seq) == seq[Len(seq)]

Failures == {"max_retries", "unparseable"}

\* the step issued a search request
Posted == posts' = posts + 1

\* the step ended the fetch of the current key with this outcome
Ended(outcome) == outcomes' = Append(outcomes, outcome)

FilesAt(store, path) == {j \in 1..Len(store) : store[j].path = path}

(* C4: the fetch of one key terminates.  At most max_retries search requests *)
(* are issued for a key; a 429, another status or a transport error is       *)
(* followed by the backoff and, while retries are left, by a new attempt for *)
(* the same key; when the retries are exhausted the fetch ends in            *)
(* max_retries, no result appended and nothing written.  Every step of the   *)
(* retry loop issues one request, so the loop cannot go on for ever.         *)
C4_Bounded ==
    /\ posts <= max_retries
    /\ retries <= max_retries
    /\ Len(sleeps) = retries
    /\ pc = "post" => (retries < max_retries /\ posts = retries)

C4_Step ==
    /\ pc = "post" => Posted
    /\ (Posted /\ attempt' \in RetryKinds) =>
          /\ retries' = retries + 1
          /\ sleeps' = Append(sleeps, delay)
          /\ retries' < max_retries => (pc' = "post" /\ idx' = idx /\ outcomes' = outcomes)
          /\ retries' = max_retries =>
                /\ Ended("max_retries")
                /\ idx' = idx + 1
                /\ pc' # "post"
                /\ all_results' = all_results
                /\ raw' = raw
    /\ Ended("max_retries") => (retries' = max_retries /\ posts' = max_retries)

C4_FetchTerminates == []C4_Bounded /\ [][C4_Step]_vars

C4_Witness ==
    /\ outcomes # <<>>
    /\ Last(outcomes) = "max_retries"
    /\ posts = max_retries
    /\ attempt \in RetryKinds

(* C5: a control-character error is not retried.  The request that raised    *)
(* it is the last of the fetch: the fetch ends in failure in that very step, *)
(* with no backoff sleep, retries and delay unchanged, whatever the retries  *)
(* already used, and nothing appended or written.                            *)
C5_Step ==
    (Posted /\ attempt' = "control_char") =>
        /\ Ended("unparseable")
        /\ idx' = idx + 1
        /\ pc' # "post"
        /\ retries' = retries
        /\ delay' = delay
        /\ sleeps' = sleeps
        /\ all_results' = all_results
        /\ raw' = raw

C5_UnparseableNotRetried == [][C5_Step]_vars

C5_Witness ==
    /\ attempt = "control_char"
    /\ outcomes # <<>>
    /\ Last(outcomes) = "unparseable"
    /\ retries = max_retries - 1
    /\ posts = max_retries

(* C6: when the fetch of a key ends with a parsed status-200 payload and the *)
(* save does not raise, the raw store holds exactly one file at the path of  *)
(* (output dir, key, doctor type, last name), its postal_code the key and    *)
(* its content the payload; a fetch that ends in failure, or a run that is   *)
(* aborted, leaves the raw store as it was.                                  *)
C6_Saved ==
    \A i \in 1..Len(outcomes) :
        outcomes[i] = "ok" =>
            LET path == Filename(runDir, runKeys[i], runParams)
            IN  /\ Cardinality(FilesAt(raw, path)) = 1
                /\ \A j \in FilesAt(raw, path) :
                      /\ raw[j].data.postal_code = runKeys[i]
                      /\ raw[j].data =
                            WithPostalCode(ServerPayload(runKeys[i], runParams),
                                           runKeys[i])

C6_Step ==
    /\ (Ended("max_retries") \/ Ended("unparseable")) => raw' = raw
    /\ raw' # raw => (Ended("ok") /\ attempt' = "200")
    /\ (Posted /\ attempt' = "200" /\ pc' # "crashed") =>
          /\ Ended("ok")
          /\ \E j \in 1..Len(raw') :
                /\ raw'[j].path = Filename(runDir, runKeys[idx], runParams)
                /\ raw'[j].data.postal_code = runKeys[idx]

C6_SuccessPersisted == []C6_Saved /\ [][C6_Step]_vars

C6_Witness ==
    /\ Len(outcomes) >= 2
    /\ outcomes[1] \in Failures
    /\ outcomes[2] = "ok"
    /\ Len(raw) = 1
    /\ raw[1].data.postal_code = runKeys[2]

(* C7: a failed key does not block the others.  In every run in which the    *)
(* fetch of some key ended in max_retries or unparseable, and which no       *)
(* input/output error of the raw store aborted, every key of the input list  *)
(* is attempted.                                                             *)
C7_RemainingKeysAttempted ==
    \A r \in 1..Len(history) :
        LET h == history[r]
        IN  (h.cause # "io" /\ \E i \in 1..Len(h.outcomes) : h.outcomes[i] \in Failures)
                => h.attempted = Len(h.keys)

(* C8: nothing but an input/output error of the raw store aborts a fetch     *)
(* run; a transport error of the session GET or of the search POST does not. *)
C8_OnlyIoAborts ==
    /\ pc = "crashed" => crashCause = "io"
    /\ \A r \in 1..Len(history) : history[r].cause \in {"none", "io"}

(* C9: the failed keys of a run can be read from its summary: two completed  *)
(* runs over the same keys that print the same summary have the same failed  *)
(* keys.                                                                     *)
FailedKeys(h) == {h.keys[i] : i \in {k \in 1..Len(h.outcomes) : h.outcomes[k] \in Failures}}

PrintedSummary(h) ==
    [total_doctors |-> h.summary.total_doctors, postal_codes |-> h.summary.postal_codes]

C9_FailuresReported ==
    \A r, t \in 1..Len(history) :
        LET g == history[r]
            h == history[t]
        IN  (/\ g.cause = "none"
             /\ h.cause = "none"
             /\ g.keys = h.keys
             /\ PrintedSummary(g) = PrintedSummary(h))
                => FailedKeys(g) = FailedKeys(h)

(* C10: resumability.  When the fetch stage is run twice in a row over the   *)
(* same key file with the same doctor type and last name, the server         *)
(* answering each key the same way, the raw store after the second run is    *)
(* the raw store after the first: there is one file, never two, for every    *)
(* key fetched, and the summary and detail tables aggregated from it are the *)
(* same.                                                                     *)
SameRunTwice(r) ==
    /\ r + 1 <= Len(history)
    /\ history[r].cause = "none"
    /\ history[r + 1].cause = "none"
    /\ history[r].dir = history[r + 1].dir
    /\ history[r].keys = history[r + 1].keys
    /\ history[r].params = history[r + 1].params
    /\ history[r].outcomes = history[r + 1].outcomes

C10_Resumable ==
    /\ \A i, j \in 1..Len(raw) : raw[i].path = raw[j].path => i = j
    /\ \A r \in 1..Len(history) :
        SameRunTwice(r) =>
            LET g == history[r]
                h == history[r + 1]
            IN  /\ h.raw = g.raw
                /\ \A i \in 1..Len(h.keys) :
                      h.outcomes[i] = "ok" =>
                          /\ Cardinality(FilesAt(h.raw,
                                Filename(h.dir, h.keys[i], h.params))) = 1
                /\ summary_rows(h.raw) = summary_rows(g.raw)
                /\ drop_duplicates(detail_rows(h.raw)) = drop_duplicates(detail_rows(g.raw))

C10_Witness ==
    /\ Len(history) = 2
    /\ SameRunTwice(1)
    /\ \E i \in 1..Len(history[2].outcomes) : history[2].outcomes[i] = "ok"
    /\ \E i \in 1..Len(history[2].outcomes) : history[2].outcomes[i] \in Failures

(* C11: idempotent skip on re-run.  In a run started after an interrupted    *)
(* one, a key whose record is in the raw store with totalcount >= 0 is       *)
(* skipped: neither the session GET nor a search POST is issued for it, and  *)
(* its record stays as it is.                                                *)
PersistedComplete(key) ==
    \E j \in 1..Len(raw) :
        /\ raw[j].path = Filename(runDir, key, runParams)
        /\ raw[j].data.totalcount >= 0

AfterInterruption == history # <<>> /\ Last(history).cause # "none"

C11_Step ==
    (/\ pc \in {"get", "post"}
     /\ AfterInterruption
     /\ PersistedComplete(runKeys[idx]))
        => /\ ~(pc = "get" /\ pc' = "post")
           /\ ~Posted
           /\ raw' = raw

C11_SkipPersisted == [][C11_Step]_vars

----------------------------------------------------------------------------
(* Properties of the key generator called on its own *)

Expanded == call.fn = "generate_and_save_permutations" /\ ret.kind = "value"

\* the children the result holds for the i-th parent, n children per parent
ChildrenOf(value, i, n) == SubSeq(value, (i - 1) * n + 1, i * n)

IsPrefix(p, c) == Len(p) <= Len(c) /\ SubSeq(c, 1, Len(p)) = p

DigitChars == {"0", "1", "2", "3", "4", "5", "6", "7", "8", "9"}

LetterChars ==
    {"A", "B", "C", "D", "E", "F", "G", "H", "I", "J", "K", "L", "M",
     "N", "O", "P", "Q", "R", "S", "T", "U", "V", "W", "X", "Y", "Z"}
        \ {"D", "F", "I", "O", "Q", "U"}

PerParent(level) == IF level = 2 THEN 20 ELSE 10

(* C12: for every list of parents, expansion at rank 1 gives 10 children per *)
(* parent, one per digit, at rank 2 20 children, one per letter of A-Z       *)
(* without D, F, I, O, Q, U, at rank 3 10 children, one per digit; the       *)
(* children of a parent are pairwise distinct, each has the parent as a      *)
(* prefix, and the result has 10 (or 20) times as many keys as parents.      *)
C12_ChildrenPerParent ==
    Expanded =>
        LET n == PerParent(call.level)
        IN  /\ Len(ret.value) = n * Len(call.arg)
            /\ \A i \in 1..Len(call.arg) :
                  LET children == ChildrenOf(ret.value, i, n)
                  IN  /\ Len(children) = n
                      /\ NoDuplicates(children)
                      /\ \A k \in 1..n : IsPrefix(call.arg[i], children[k])
                      /\ {Last(children[k]) : k \in 1..n} =
                            IF call.level = 2 THEN LetterChars ELSE DigitChars

C12_Witness ==
    /\ Expanded
    /\ call.level = 2
    /\ call.arg = <<K1A0, K1A1>>
    /\ Len(ret.value) = 40

C14_ExpansionValidates ==
    call.fn = "generate_and_save_permutations" =>
        /\ call.level \notin 1..3 =>
              /\ ret.kind = "ValueError"
              /\ ret.value = <<>>
              /\ \A n \in 1..3 : keyFiles[n] = <<>>
        /\ call.level \in 1..3 =>
              \A i \in 1..Len(call.arg) :
                  actual_length(call.arg[i]) # call.level + 2 =>
                      /\ \A c \in Range(ret.value) : ~IsPrefix(call.arg[i], c)
                      /\ \A c \in Range(keyFiles[call.level]) :
                            ~IsPrefix(call.arg[i], c)

----------------------------------------------------------------------------
(* Properties of the aggregation and of the keys *)

\* a key as the rank-1 generator writes it: FSA, separator, one digit
IsRank1Key(code) == Len(code) = 5 /\ code[4] = "+" /\ code[5] \in DigitChars

(* C15: the cap classifier of the aggregation counts as capped every summary *)
(* row with totalcount = -1 whose key is a rank-1 key as written (FSA,       *)
(* separator, digit), and counts no row with totalcount >= 0 as capped.      *)
C15_CapClassifier ==
    \A i \in 1..Len(summary) :
        /\ (summary[i].totalcount = -1 /\ IsRank1Key(summary[i].postal_code))
              => summary[i] \in Range(summary_df_capped(summary))
        /\ summary[i].totalcount >= 0
              => summary[i] \notin Range(summary_df_capped(summary))

SearchKeys == Range(seed) \cup UNION {Range(keyFiles[n]) : n \in 1..3}

\* the shape of a key: length 3 to 6, then digit, letter, digit
KeyShape(k) ==
    /\ Len(k) \in 3..6
    /\ Len(k) >= 4 => k[4] \in DigitChars
    /\ Len(k) >= 5 => k[5] \in LetterChars
    /\ Len(k) >= 6 => k[6] \in DigitChars

\* code.replace('+', '')
Stripped(code) == LET NotPlus(c) == c # "+" IN SelectSeq(code, NotPlus)

FirstIndex(rows, id) ==
    CHOOSE i \in 1..Len(rows) :
        /\ rows[i].cpsonumber = id
        /\ \A j \in 1..(i - 1) : rows[j].cpsonumber # id

Aggregated == raw # <<>> /\ summary = summary_rows(raw)

(* C17: the detail table aggregated from the raw store has one row, never    *)
(* two, for every cpsonumber of the raw records; when records share a        *)
(* cpsonumber and differ in another field, the row kept is the first in the  *)
(* order the files are read, and the rows keep that order.                   *)
C17_FirstSeenWins ==
    /\ NoDuplicates([k \in 1..Len(details) |-> details[k].cpsonumber])
    /\ Aggregated =>
          LET rows == detail_rows(raw)
          IN  /\ {details[k].cpsonumber : k \in 1..Len(details)}
                    = {rows[i].cpsonumber : i \in 1..Len(rows)}
              /\ \A k \in 1..Len(details) :
                    details[k].found_under =
                        rows[FirstIndex(rows, details[k].cpsonumber)].found_under
              /\ \A k, l \in 1..Len(details) :
                    k < l => FirstIndex(rows, details[k].cpsonumber)
                                < FirstIndex(rows, details[l].cpsonumber)

C17_Witness ==
    /\ Aggregated
    /\ Len(raw) >= 2
    /\ details # <<>>
    /\ details[1].found_under = raw[1].data.postal_code
    /\ \E i \in 1..Len(detail_rows(raw)) :
          /\ detail_rows(raw)[i].cpsonumber = details[1].cpsonumber
          /\ detail_rows(raw)[i].found_under # details[1].found_under

(* C18: the summary table has one row per search key: after any sequence of  *)
(* fetch runs, runs of the same key with another doctor type included, no    *)
(* key is in two summary rows.                                               *)
C18_OneRowPerKey ==
    NoDuplicates([i \in 1..Len(summary) |-> summary[i].postal_code])

FormatCalled == call.fn = "format_phone"

DigitsOf(str) == LET IsDigit(c) == c \in DigitChars IN SelectSeq(str, IsDigit)

Dashed == <<"4", "1", "6", "-", "5", "5", "5", "-", "1", "2", "3", "4">>

Formatted == <<"(", "4", "1", "6", ")", " ", "5", "5", "5", "-", "1", "2", "3", "4">>

(* C19: phone normalisation.  When exactly 10 digits are left once every     *)
(* other character is removed, the result is (NNN) NNN-NNNN with those       *)
(* digits; otherwise it is the marker None, never the input.  416-555-1234   *)
(* gives (416) 555-1234, 12345 gives the marker, and a formatted value is    *)
(* returned unchanged.                                                       *)
C19_PhoneNormalised ==
    FormatCalled =>
        LET d == DigitsOf(call.arg)
        IN  /\ Len(d) = 10 =>
                  /\ ret.value = <<"(", d[1], d[2], d[3], ")", " ", d[4], d[5], d[6],
                                   "-", d[7], d[8], d[9], d[10]>>
                  /\ format_phone(ret.value) = ret.value
            /\ Len(d) # 10 => (ret.value = None /\ ret.value # call.arg)
            /\ call.arg = Dashed => ret.value = Formatted
            /\ call.arg = <<"1", "2", "3", "4", "5">> => ret.value = None
            /\ call.arg = Formatted => ret.value = call.arg

C19_Witness ==
    /\ FormatCalled
    /\ call.arg = Formatted
    /\ ret.value = Formatted

(* C20: the backoff state is per key and doubles.  The fetch of every key    *)
(* starts with retries 0 and the initial delay, however the fetch of the key *)
(* before ended; the k-th backoff sleep of a key lasts                       *)
(* initial_delay * 2^(k-1), and each backoff adds exactly 1 to retries.      *)
C20_Doubling ==
    /\ \A k \in 1..Len(sleeps) : sleeps[k] = initial_delay * 2^(k - 1)
    /\ pc = "post" => (retries = Len(sleeps) /\ delay = initial_delay * 2^retries)

C20_Step ==
    /\ (pc = "get" /\ pc' = "post") =>
          (retries' = 0 /\ delay' = initial_delay /\ sleeps' = <<>>)
    /\ Len(sleeps') > Len(sleeps) =>
          /\ sleeps' = Append(sleeps, initial_delay * 2^retries)
          /\ retries' = retries + 1
          /\ delay' = 2 * delay

C20_PerKeyBackoff == []C20_Doubling /\ [][C20_Step]_vars

\* the second key backs off for the first time after the fetch of the first
\* key has ended in failure
C20_Witness ==
    /\ pc = "post"
    /\ idx = 2
    /\ outcomes[1] \in Failures
    /\ sleeps = <<initial_delay>>
    /\ retries = 1
    /\ delay = 2 * initial_delay

----------------------------------------------------------------------------
(* Properties of the length filter and of the loader *)

TrueLength(code) == Len(Stripped(code))

\* the positions of the loaded keys the filter of this level lets through
Fitting(loaded, level) ==
    {i \in 1..Len(loaded) : TrueLength(loaded[i]) = level + 2}

(* C21: length filtering at each rank.  Of the capped keys loaded for level  *)
(* n, those whose true length, the separator not counted, is n + 2 are       *)
(* given to the generator, in the order loaded, and no other; a key of       *)
(* another length is dropped and never expanded at that level, and the run   *)
(* ends with exit status 1 only when no key is left.                         *)
C21_LengthFilter ==
    lastGen.level \in 1..3 =>
        LET fit == Fitting(lastGen.loaded, lastGen.level)
        IN  /\ Len(lastGen.parents) = Cardinality(fit)
            /\ Range(lastGen.parents) = {lastGen.loaded[i] : i \in fit}
            /\ \A i, j \in fit :
                  i < j => \E k, l \in 1..Len(lastGen.parents) :
                              /\ k < l
                              /\ lastGen.parents[k] = lastGen.loaded[i]
                              /\ lastGen.parents[l] = lastGen.loaded[j]
            /\ \A i \in (1..Len(lastGen.loaded)) \ fit :
                  \A c \in Range(lastGen.permutations) :
                      ParentOf(c, lastGen.level) # lastGen.loaded[i]
            /\ lastGen.exit = (IF fit = {} THEN 1 ELSE 0)
            /\ fit # {} => keyFiles[lastGen.level] = lastGen.permutations

\* level 2 run on a summary in which the seed and two of its children are
\* capped: the seed is dropped, the children are expanded
C21_Witness ==
    /\ lastGen.level = 2
    /\ lastGen.exit = 0
    /\ lastGen.loaded = <<K1A, K1A0, K1A1>>
    /\ lastGen.parents = <<K1A0, K1A1>>
    /\ Len(lastGen.permutations) = 40

LoadCalled == call.fn = "load_postal_codes"

\* the postal codes of the records with totalcount = -1, in order
CappedCodes(data) ==
    LET IsCapped(item) == item.totalcount = -1
    IN  StrItems(ItemCodes(SelectSeq(data, IsCapped)))

(* C22: load_postal_codes returns only postal codes whose totalcount is -1:  *)
(* for a JSON list of records, in any order and any mix of capped and        *)
(* complete records, the list returned is the postal codes of the records    *)
(* with totalcount = -1; a plain list of key strings is returned as is.      *)
C22_OnlyCappedLoaded ==
    LoadCalled =>
        /\ (\A i \in 1..Len(call.arg) : call.arg[i].dict)
              => ret.value = CappedCodes(call.arg)
        /\ (\A i \in 1..Len(call.arg) : ~call.arg[i].dict)
              => ret.value = call.arg

====
